---- MODULE Spec2Model ----
(***************************************************************************)
(* Model of two programs of the pact-go repository:                        *)
(*                                                                         *)
(*  - the TCP plugin provider of examples/v3/plugin_socket.go: an admin    *)
(*    HTTP API that creates sessions, loads their expected interactions    *)
(*    and reports mismatches, plus one TCP listener per session whose      *)
(*    connection handlers match inbound messages (specification Spec);     *)
(*                                                                         *)
(*  - PluginProvider.ExecuteTest of the v3 package together with the       *)
(*    native wrappers it calls (specification ProviderSpec).               *)
(*                                                                         *)
(* Go strings that are trimmed or compared as messages are sequences of    *)
(* one-character strings; canned responses are plain strings.              *)
(***************************************************************************)
EXTENDS Integers, Sequences, FiniteSets, TLC

VARIABLES
    sessions,      \* var sessions map[string]*session (id -> session struct)
    createPc,      \* id -> position of the createSession handler that made it
    listenerPc,    \* id -> position of the session's startTCPListener goroutine
    responses,     \* id -> the sessionResponse written by createSession
    alive,         \* FALSE once a listener called os.Exit(1)
    reply,         \* the last request handled (HTTP or TCP) and the response written
    handlers,      \* connection -> position and locals of its handleRequest goroutine
    config,        \* PluginProvider.config
    Interactions,  \* PluginProvider.Interactions
    pc,            \* position inside PluginProvider.ExecuteTest
    frame,         \* locals of the running ExecuteTest: port, clientPort, defers
    calls,         \* calls made by the current / last ExecuteTest, in order
    runs,          \* number of ExecuteTest invocations started
    added,         \* payloads passed to AddInteraction since cleanInteractions last ran
    setup          \* NewPluginProvider: working directory, config given, result

sessionVars == <<sessions, createPc, listenerPc, responses, alive, reply, handlers>>
providerVars == <<config, Interactions, pc, frame, calls, runs, added, setup>>
vars == <<sessions, createPc, listenerPc, responses, alive, reply, handlers,
          config, Interactions, pc, frame, calls, runs, added, setup>>

------------------------------------------------------------------------------
(* Bounds of the model *)

MaxLen == 2        \* longest byte string one conn.Read returns
MaxLoad == 2       \* most interactions in one load-interactions request
MaxMatched == 2    \* most matches recorded, over all sessions
MaxPending == 2    \* most payloads pending in PluginProvider.Interactions
MaxRuns == 2       \* most ExecuteTest invocations on one provider
MaxConns == 2      \* most connections whose handlers are followed step by step
MaxCwd == 2        \* longest working directory name, in characters after the root
MaxValidations == 2  \* most calls of validateConfig on one configuration

Chars == {"P", " "}
SessionIds == {"uuid-1", "uuid-2"}
Ports == {50001, 50002}
LoadMessages == {<<"P">>, <<"P", "P">>}

EmptyString == <<>>
EmptyMap == [k \in {} |-> k]

Strings(n) == UNION {[1..k -> Chars] : k \in 0..n}

------------------------------------------------------------------------------
(* Helpers: Go maps, strings *)

MapDelete(m, k) == [x \in DOMAIN m \ {k} |-> m[x]]

MapPut(m, k, v) == [x \in DOMAIN m \cup {k} |-> IF x = k THEN v ELSE m[x]]

IsSpace(c) == c \in {" ", "\n", "\t", "\r"}

RECURSIVE TrimLeft(_)
TrimLeft(s) ==
    IF s = <<>> THEN s
    ELSE IF IsSpace(Head(s)) THEN TrimLeft(Tail(s)) ELSE s

RECURSIVE TrimRight(_)
TrimRight(s) ==
    IF s = <<>> THEN s
    ELSE IF IsSpace(s[Len(s)]) THEN TrimRight(SubSeq(s, 1, Len(s) - 1)) ELSE s

TrimSpace(s) == TrimRight(TrimLeft(s))

\* The orders in which a range over a Go map may visit the keys of S.
Orderings(S) ==
    {f \in [1..Cardinality(S) -> S] : \A i, j \in DOMAIN f : i /= j => f[i] /= f[j]}

------------------------------------------------------------------------------
(* plugin_socket.go: types *)

interaction(message, response) ==
    [Message |-> message, Response |-> response, Delimeter |-> ""]

InteractionValues ==
    {interaction(<<"P">>, "PONG"), interaction(<<"P">>, "ACK"),
     interaction(<<"P", "P">>, "PONG")}

session(id, port) ==
    [id |-> id, interactions |-> EmptyMap, matchedInteractions |-> <<>>, port |-> port]

sessionResponse(id, port) == [ID |-> id, Port |-> port, AdminPort |-> 0]

mismatchDetail(unmatched) ==
    [Actual |-> EmptyString,
     Expected |-> unmatched.Message,
     Mismatch |-> <<"expected message '", unmatched.Message, "', but got none">>]

StatusOK == 200
StatusBadRequest == 400
StatusNotFound == 404

\* Other sessions than id, as the map holds them.
Others(ss, id) == [b \in DOMAIN ss \ {id} |-> ss[b]]

NoSession == session("", 0)

\* A response of the admin API to a request naming session id ("" for none).
\* others: the other sessions as they were when the handler started.
httpReply(op, id, status, body, others) ==
    [kind |-> op, id |-> id, err |-> "nil", request |-> <<>>, status |-> status,
     body |-> body, before |-> NoSession, others |-> others]

\* The bytes written to a connection of session id's listener, with the error
\* of conn.Read and the message handleRequest passed to matchRequest.
\* before, others: the session and the other sessions as they were when the
\* handler started.
tcpReply(id, err, request, response, before, others) ==
    [kind |-> "tcp", id |-> id, err |-> err, request |-> request, status |-> 0,
     body |-> [text |-> response], before |-> before, others |-> others]

NoReply ==
    [kind |-> "none", id |-> "", err |-> "nil", request |-> <<>>, status |-> 0,
     body |-> [text |-> ""], before |-> NoSession, others |-> EmptyMap]

------------------------------------------------------------------------------
(* plugin_socket.go: matcher and mismatch calculator *)

\* A matchRequest that also records a message it did not find.
matchRequestRecordingMiss(message, s) ==
    [session |-> [s EXCEPT !.matchedInteractions = Append(@, message)],
     response |-> IF message \in DOMAIN s.interactions
                  THEN s.interactions[message].Response ELSE ""]

\* A matchRequest that records a key only the first time it is matched.
matchRequestOnce(message, s) ==
    IF message \in DOMAIN s.interactions
    THEN [session |-> IF message \in {s.matchedInteractions[i] :
                                         i \in DOMAIN s.matchedInteractions}
                      THEN s
                      ELSE [s EXCEPT !.matchedInteractions = Append(@, message)],
          response |-> s.interactions[message].Response]
    ELSE [session |-> s, response |-> ""]

\* matchRequest: the session after the call and the string returned.
matchRequest(message, s) ==
    IF message \in DOMAIN s.interactions
    THEN [session |-> [s EXCEPT !.matchedInteractions = Append(@, message)],
          response |-> s.interactions[message].Response]
    ELSE [session |-> s, response |-> ""]

\* A delete loop that stops after the first matched message.
deleteFirstMatched(m, matched) ==
    IF matched = <<>> THEN m ELSE MapDelete(m, Head(matched))

\* The loop  for _, match := range s.matchedInteractions { delete(...) }.
RECURSIVE deleteMatched(_, _)
deleteMatched(m, matched) ==
    IF matched = <<>> THEN m
    ELSE deleteMatched(MapDelete(m, Head(matched)), Tail(matched))

\* The map mismatchedInteractions after the copy and the deletes.
unmatchedInteractions(s) == deleteMatched(s.interactions, s.matchedInteractions)

\* sessionMismatches, for one iteration order of the last range loop.
sessionMismatches(s, order) ==
    [Mismatches |-> [i \in 1..Len(order) |->
                        mismatchDetail(unmatchedInteractions(s)[order[i]])]]

\* The results sessionMismatches may return for s.
MismatchResults(s) ==
    {sessionMismatches(s, o) : o \in Orderings(DOMAIN unmatchedInteractions(s))}

\* The loop of loadInteractions: session.interactions[v.Message] = v.
RECURSIVE loadTable(_, _)
loadTable(m, list) ==
    IF list = <<>> THEN m
    ELSE loadTable(MapPut(m, Head(list).Message, Head(list)), Tail(list))

------------------------------------------------------------------------------
(* plugin_socket.go: state and handlers *)

\* The connections whose handlers are followed statement by statement.
Conns == 1..MaxConns

\* A handleRequest goroutine: where it is, the session it was started with,
\* the message it passed to matchRequest, the value of s.matchedInteractions
\* it read for append, and the response it has to write.
handler(at, id, message, seen, response) ==
    [pc |-> at, id |-> id, message |-> message, seen |-> seen, response |-> response]

NoHandler == handler("none", "", <<>>, <<>>, "")

SessionInit ==
    /\ sessions = EmptyMap
    /\ createPc = EmptyMap
    /\ listenerPc = EmptyMap
    /\ responses = EmptyMap
    /\ alive = TRUE
    /\ reply = NoReply
    /\ handlers = [c \in Conns |-> NoHandler]

\* Ports bound by a listener of this process.
BoundPorts == {sessions[i].port : i \in {j \in DOMAIN sessions : listenerPc[j] = "listening"}}

\* utils.GetFreePort: a port nothing listens on at the time of the call.
GetFreePort == Ports \ BoundPorts

\* uuid.New().String(): an identifier no session has.
NewUUID == SessionIds \ DOMAIN sessions

\* The values of S the model draws from. Identifiers and ports are only ever
\* compared for equality, so the first session is given the first of each:
\* every other behaviour is this one with the values renamed.
Draw(S, first) == IF DOMAIN sessions = {} THEN {first} ELSE S

\* POST /sessions up to the channel send  tcpSessions <- session,
\* where the handler blocks until listenForSessions receives.
CreateSession(bodyOK) ==
    /\ alive
    /\ IF bodyOK
       THEN \E port \in Draw(GetFreePort, 50001), id \in Draw(NewUUID, "uuid-1") :
               /\ sessions' = MapPut(sessions, id, session(id, port))
               /\ createPc' = MapPut(createPc, id, "send")
               /\ listenerPc' = MapPut(listenerPc, id, "none")
               /\ UNCHANGED <<responses, reply>>
       ELSE /\ reply' = httpReply("createSession", "", StatusBadRequest,
                                  [text |-> ""], sessions)
            /\ UNCHANGED <<sessions, createPc, listenerPc, responses>>
    /\ UNCHANGED <<alive, handlers, providerVars>>

\* A listenForSessions that calls startTCPListener itself, without go: it
\* receives no session after the first, being inside that listener's loop.
ListenForSessionsInline(id) ==
    /\ alive
    /\ id \in DOMAIN sessions
    /\ createPc[id] = "send"
    /\ \A b \in DOMAIN sessions : listenerPc[b] = "none"
    /\ createPc' = [createPc EXCEPT ![id] = "respond"]
    /\ listenerPc' = [listenerPc EXCEPT ![id] = "spawned"]
    /\ UNCHANGED <<sessions, responses, alive, reply, handlers, providerVars>>

\* listenForSessions: one iteration of  for i := range c { go startTCPListener(i) },
\* the receive being the rendezvous with a blocked createSession handler.
ListenForSessions(id) ==
    /\ alive
    /\ id \in DOMAIN sessions
    /\ createPc[id] = "send"
    /\ createPc' = [createPc EXCEPT ![id] = "respond"]
    /\ listenerPc' = [listenerPc EXCEPT ![id] = "spawned"]
    /\ UNCHANGED <<sessions, responses, alive, reply, handlers, providerVars>>

\* POST /sessions after the send: c.JSON(http.StatusOK, response).
CreateSessionRespond(id) ==
    /\ alive
    /\ id \in DOMAIN sessions
    /\ createPc[id] = "respond"
    /\ createPc' = [createPc EXCEPT ![id] = "done"]
    /\ responses' = MapPut(responses, id, sessionResponse(id, sessions[id].port))
    /\ reply' = httpReply("createSession", id, StatusOK,
                          sessionResponse(id, sessions[id].port), Others(sessions, id))
    /\ UNCHANGED <<sessions, listenerPc, alive, handlers, providerVars>>

\* startTCPListener up to the accept loop: net.Listen, os.Exit(1) on error.
StartTCPListener(id) ==
    /\ alive
    /\ id \in DOMAIN sessions
    /\ listenerPc[id] = "spawned"
    /\ IF sessions[id].port \in BoundPorts
       THEN /\ alive' = FALSE
            /\ UNCHANGED listenerPc
       ELSE /\ listenerPc' = [listenerPc EXCEPT ![id] = "listening"]
            /\ UNCHANGED alive
    /\ UNCHANGED <<sessions, createPc, responses, reply, handlers, providerVars>>

\* What handleRequest does with the result (data, err) of conn.Read.
handleRequest(data, err, s) ==
    IF err /= "nil" /\ err /= "EOF"
    THEN [session |-> s, response |-> ""]
    ELSE matchRequest(TrimSpace(data), s)

\* The message handleRequest passes to matchRequest (none on a read error).
requestOf(data, err) ==
    IF err /= "nil" /\ err /= "EOF" THEN <<>> ELSE TrimSpace(data)

\* The number of matches recorded in the sessions ss.
RECURSIVE TotalMatched(_)
TotalMatched(ss) ==
    IF DOMAIN ss = {} THEN 0
    ELSE LET id == CHOOSE i \in DOMAIN ss : TRUE IN
         Len(ss[id].matchedInteractions) + TotalMatched(MapDelete(ss, id))

\* One connection accepted by the listener of session id: handleRequest(conn, s).
HandleRequest(id, data, err) ==
    /\ alive
    /\ id \in DOMAIN sessions
    /\ listenerPc[id] = "listening"
    /\ LET r == handleRequest(data, err, sessions[id]) IN
          /\ sessions' = [sessions EXCEPT ![id] = r.session]
          /\ TotalMatched(sessions') <= MaxMatched
          /\ reply' = tcpReply(id, err, requestOf(data, err), r.response,
                                sessions[id], Others(sessions, id))
    /\ UNCHANGED <<createPc, listenerPc, responses, alive, handlers, providerVars>>

\* A loadInteractions that starts the session's match history afresh.
loadInteractionsResettingMatched(id, bodyOK, list) ==
    /\ alive
    /\ id \in DOMAIN sessions
    /\ bodyOK
    /\ sessions' = [sessions EXCEPT
                       ![id].interactions = loadTable(EmptyMap, list),
                       ![id].matchedInteractions = <<>>]
    /\ reply' = httpReply("loadInteractions", id, StatusOK,
                          [json |-> "null"], Others(sessions, id))
    /\ UNCHANGED <<createPc, listenerPc, responses, alive, handlers, providerVars>>

\* A loadInteractions that keeps one table for all sessions.
loadInteractionsIntoAll(id, bodyOK, list) ==
    /\ alive
    /\ id \in DOMAIN sessions
    /\ bodyOK
    /\ sessions' = [b \in DOMAIN sessions |->
                       [sessions[b] EXCEPT !.interactions = loadTable(EmptyMap, list)]]
    /\ reply' = httpReply("loadInteractions", id, StatusOK,
                          [json |-> "null"], Others(sessions, id))
    /\ UNCHANGED <<createPc, listenerPc, responses, alive, handlers, providerVars>>

\* POST /sessions/:id/interactions
loadInteractions(id, bodyOK, list) ==
    /\ alive
    /\ IF id \in DOMAIN sessions
       THEN IF bodyOK
            THEN /\ sessions' = [sessions EXCEPT
                                   ![id].interactions = loadTable(EmptyMap, list)]
                 /\ reply' = httpReply("loadInteractions", id, StatusOK,
                                       [json |-> "null"], Others(sessions, id))
            ELSE /\ reply' = httpReply("loadInteractions", id, StatusBadRequest,
                                       [text |-> ""], Others(sessions, id))
                 /\ UNCHANGED sessions
       ELSE /\ reply' = httpReply("loadInteractions", id, StatusNotFound,
                                  [json |-> "null"], Others(sessions, id))
            /\ UNCHANGED sessions
    /\ UNCHANGED <<createPc, listenerPc, responses, alive, handlers, providerVars>>

\* A mismatches that knows a session only once its listener listens.
mismatchesOnceListening(id) ==
    /\ alive
    /\ IF id \in DOMAIN sessions /\ listenerPc[id] = "listening"
       THEN \E res \in MismatchResults(sessions[id]) :
               reply' = httpReply("mismatches", id, StatusOK, res, Others(sessions, id))
       ELSE reply' = httpReply("mismatches", id, StatusNotFound,
                               [json |-> "null"], Others(sessions, id))
    /\ UNCHANGED <<sessions, createPc, listenerPc, responses, alive, handlers, providerVars>>

\* A mismatches that answers for an unknown session as for one that expects
\* nothing.
mismatchesOfUnknownAsNone(id) ==
    /\ alive
    /\ IF id \in DOMAIN sessions
       THEN \E res \in MismatchResults(sessions[id]) :
               reply' = httpReply("mismatches", id, StatusOK, res, Others(sessions, id))
       ELSE reply' = httpReply("mismatches", id, StatusOK,
                               [Mismatches |-> <<>>], Others(sessions, id))
    /\ UNCHANGED <<sessions, createPc, listenerPc, responses, alive, handlers, providerVars>>

\* GET /sessions/:id/mismatches
mismatches(id) ==
    /\ alive
    /\ IF id \in DOMAIN sessions
       THEN \E res \in MismatchResults(sessions[id]) :
               reply' = httpReply("mismatches", id, StatusOK, res, Others(sessions, id))
       ELSE reply' = httpReply("mismatches", id, StatusNotFound,
                               [json |-> "null"], Others(sessions, id))
    /\ UNCHANGED <<sessions, createPc, listenerPc, responses, alive, handlers, providerVars>>

\* Session ids an admin client can name: those it was given in a create-session
\* response, and identifiers of no session.
KnownIds == {i \in DOMAIN sessions : createPc[i] = "done"}
RequestIds == KnownIds \cup (SessionIds \ DOMAIN sessions)

LoadLists == UNION {[1..n -> InteractionValues] : n \in 0..MaxLoad}

\* One request body of LoadLists for every table such a body can load. Bodies
\* that load the same table lead loadInteractions to the same state, so the
\* server's next-state relation draws its bodies from these.
LoadListsByTable ==
    {CHOOSE list \in LoadLists : loadTable(EmptyMap, list) = t :
        t \in {loadTable(EmptyMap, l) : l \in LoadLists}}

\* What conn.Read may give: bytes, the end of the stream, or a failure.
ReadResults ==
    {[data |-> d, err |-> "nil"] : d \in Strings(MaxLen) \ {<<>>}}
    \cup {[data |-> <<>>, err |-> "EOF"], [data |-> <<>>, err |-> "error"]}

\* handleRequest of connection c, accepted by the listener of session id, up
\* to the call of matchRequest: conn.Read and strings.TrimSpace. After a read
\* failure the handler writes "" and ends.
HandleRequestRead(c, id, data, err) ==
    /\ alive
    /\ id \in DOMAIN sessions
    /\ listenerPc[id] = "listening"
    /\ handlers[c].pc = "none"
    /\ handlers' = [handlers EXCEPT ![c] =
                       IF err /= "nil" /\ err /= "EOF"
                       THEN handler("failed", id, <<>>, <<>>, "")
                       ELSE handler("matchRequest", id, TrimSpace(data), <<>>, "")]
    /\ UNCHANGED <<sessions, createPc, listenerPc, responses, alive, reply, providerVars>>

\* matchRequest, line 69 and the right-hand side of line 71: the lookup in
\* s.interactions and, on a hit, the read of s.matchedInteractions for append.
\* On a miss the handler writes "" and ends.
MatchRequestLookup(c) ==
    LET h == handlers[c]
        s == sessions[h.id]
    IN  /\ alive
        /\ h.pc = "matchRequest"
        /\ handlers' = [handlers EXCEPT ![c] =
                           IF h.message \in DOMAIN s.interactions
                           THEN handler("append", h.id, h.message, s.matchedInteractions,
                                        s.interactions[h.message].Response)
                           ELSE handler("missed", h.id, h.message, <<>>, "")]
        /\ UNCHANGED <<sessions, createPc, listenerPc, responses, alive, reply,
                       providerVars>>

\* matchRequest, the assignment of line 71:  s.matchedInteractions = append(...),
\* then the return of the response, which the handler writes.
MatchRequestStore(c) ==
    LET h == handlers[c] IN
    /\ alive
    /\ h.pc = "append"
    /\ sessions' = [sessions EXCEPT
                       ![h.id].matchedInteractions = Append(h.seen, h.message)]
    /\ handlers' = [handlers EXCEPT ![c].pc = "matched"]
    /\ UNCHANGED <<createPc, listenerPc, responses, alive, reply, providerVars>>

------------------------------------------------------------------------------
(* v3 package (plugin provider) and its native wrappers *)

AdminPort == 4444
ErrMockServerUnableToStartCode == -3

\* Interaction payloads (interface{}): two that json.Marshal accepts and one
\* it rejects (a channel value).
Payloads == {"i1", "i2", "chan"}

Nil == [msg |-> "nil"]
Error(msg) == [msg |-> msg]

call(fn, arg, ret) == [fn |-> fn, arg |-> arg, ret |-> ret]

\* What the C function create_plugin_mock_server may return: the port of the
\* mock server, or a negative error code.
EngineStartResults == Ports \cup {ErrMockServerUnableToStartCode}

\* What the C function add_plugin_interaction may report with the int it
\* returns: the interactions were taken, or they were not.
EngineAddResults == {"ok", "failed"}

\* What the C function plugin_mock_server_matched may return.
EngineMatchedResults == {0, 1}

\* What plugin_mock_server_mismatches may return, as json.Unmarshal sees it:
\* a document that does not parse, or a parsed list of mismatch details.
EngineMismatchResults ==
    {[err |-> Error("unexpected end of JSON input"), Mismatches |-> <<>>],
     [err |-> Nil, Mismatches |-> <<>>],
     [err |-> Nil, Mismatches |-> <<[Actual |-> "", Expected |-> "P",
                                     Mismatch |-> "expected message 'P', but got none"]>>]}

\* What the test callback may return.
CallbackResults == {Nil, Error("consumer test failed"), Error("connection refused")}

\* What waitForPort may return.
WaitForPortResults == {Nil, Error("Timed out waiting for plugin to start on port")}

\* native.CreatePluginMockServer: return int(p), nil.
CreatePluginMockServer(port, p) == [clientPort |-> p, err |-> Nil]

\* json.Marshal of the payload struct.
Marshal(interactions) ==
    IF \E i \in DOMAIN interactions : interactions[i] = "chan"
    THEN [b |-> <<>>, err |-> Error("json: unsupported type: chan int")]
    ELSE [b |-> interactions, err |-> Nil]

\* native.AddPluginInteractions: the error returned.
AddPluginInteractions(port, interactions) == Marshal(interactions).err

\* native.PluginMockServerMismatchedRequests on the engine's answer.
PluginMockServerMismatchedRequests(answer) ==
    IF answer.err /= Nil
    THEN [res |-> [Mismatches |-> <<>>], err |-> answer.err]
    ELSE [res |-> [Mismatches |-> answer.Mismatches], err |-> Nil]

\* native.VerifyPlugin on the engine's two answers.
VerifyPlugin(matched, answer) ==
    LET m == PluginMockServerMismatchedRequests(answer) IN
    IF m.err /= Nil
    THEN [res |-> FALSE, mismatches |-> [Mismatches |-> <<>>]]
    ELSE [res |-> matched = 1, mismatches |-> m.res]

\* PluginProvider.cleanInteractions: the new value of p.Interactions.
cleanInteractions == <<>>

\* PluginProvider.WritePact: the error returned.
WritePact == Nil

\* PluginProvider.WritePact: the calls it makes to the native package (it
\* logs and returns; native.WritePactFile is not among them).
WritePactNativeCalls == <<>>

NoFrame == [port |-> 0, clientPort |-> 0, defers |-> <<>>]

\* Nothing recorded about the construction of the provider.
NoSetup == [cwd |-> <<>>, given |-> <<>>, free |-> <<>>, err |-> Nil,
            provider |-> "none", first |-> <<>>, validated |-> 0]

ProviderInit ==
    /\ config = [Host |-> "127.0.0.1", Port |-> AdminPort]
    /\ Interactions = <<>>
    /\ pc = "idle"
    /\ frame = NoFrame
    /\ calls = <<>>
    /\ runs = 0
    /\ added = <<>>
    /\ setup = NoSetup

\* A defer that cleans up the port the engine returned, not the admin port.
deferCleanupOfClientPort(f) ==
    [f EXCEPT !.defers = Append(@, call("CleanupPluginMockServer", f.clientPort, "ignored"))]

\* defer native.CleanupPluginMockServer(port): the argument is evaluated now.
deferCleanupPluginMockServer(f) ==
    [f EXCEPT !.defers = Append(@, call("CleanupPluginMockServer", f.port, "ignored"))]

\* defer p.cleanInteractions()
deferCleanInteractions(f) ==
    [f EXCEPT !.defers = Append(@, call("cleanInteractions", "none", "none"))]

\* One deferred call, on the pair (p.Interactions, calls made).
runDeferred(d, st) ==
    IF d.fn = "cleanInteractions"
    THEN [Interactions |-> cleanInteractions, calls |-> Append(st.calls, d)]
    ELSE [Interactions |-> st.Interactions, calls |-> Append(st.calls, d)]

\* Deferred calls run in the order of their registration.
RECURSIVE runDefersInOrder(_, _)
runDefersInOrder(defers, st) ==
    IF defers = <<>> THEN st
    ELSE runDefersInOrder(Tail(defers), runDeferred(Head(defers), st))

\* The deferred calls of a frame, last registered first.
RECURSIVE runDefers(_, _)
runDefers(defers, st) ==
    IF defers = <<>> THEN st
    ELSE runDefers(SubSeq(defers, 1, Len(defers) - 1),
                   runDeferred(defers[Len(defers)], st))

\* A return statement of ExecuteTest: the deferred calls run, then the caller
\* gets err. The "return" entry records p.Interactions as the caller finds it.
Return(f, made, err) ==
    LET st == runDefers(f.defers, [Interactions |-> Interactions, calls |-> made]) IN
    /\ Interactions' = st.Interactions
    /\ calls' = Append(st.calls, call("return", st.Interactions, err))
    /\ pc' = "idle"
    /\ frame' = NoFrame
    /\ added' = IF \E i \in DOMAIN f.defers : f.defers[i].fn = "cleanInteractions"
                THEN <<>> ELSE added

\* ExecuteTest goes on to its next call.
Goto(f, made, next) ==
    /\ frame' = f
    /\ calls' = made
    /\ pc' = next
    /\ UNCHANGED <<Interactions, added>>

\* ExecuteTest, lines 117-129: native.CreatePluginMockServer and the first defer.
ExecuteTest ==
    /\ pc = "idle"
    /\ runs < MaxRuns
    /\ runs' = runs + 1
    /\ \E p \in EngineStartResults :
          LET port == config.Port
              r == CreatePluginMockServer(port, p)
              f == [port |-> port, clientPort |-> r.clientPort, defers |-> <<>>]
              made == <<call("CreatePluginMockServer", port, <<p, r.err>>)>>
          IN  IF r.err /= Nil
              THEN Return(f, made, r.err)
              ELSE Goto(deferCleanupPluginMockServer(f), made, "waitForPort")
    /\ UNCHANGED <<config, setup, sessionVars>>

\* An ExecuteTest that goes on to the push whatever waitForPort returned.
WaitForPortIgnoringTimeout ==
    /\ pc = "waitForPort"
    /\ \E err \in WaitForPortResults :
          Goto(frame, Append(calls, call("waitForPort", frame.port, err)),
               "AddPluginInteractions")
    /\ UNCHANGED <<config, setup, runs, sessionVars>>

\* ExecuteTest, lines 131-135: waitForPort.
WaitForPort ==
    /\ pc = "waitForPort"
    /\ \E err \in WaitForPortResults :
          LET made == Append(calls, call("waitForPort", frame.port, err)) IN
          IF err /= Nil
          THEN Return(frame, made, err)
          ELSE Goto(frame, made, "AddPluginInteractions")
    /\ UNCHANGED <<config, setup, runs, sessionVars>>

\* ExecuteTest, lines 142-149: native.AddPluginInteractions and the second defer.
PushInteractions ==
    /\ pc = "AddPluginInteractions"
    /\ \E res \in EngineAddResults :
          LET err == AddPluginInteractions(frame.port, Interactions)
              m == Marshal(Interactions)
              engine == IF m.err = Nil
                        THEN <<call("add_plugin_interaction", <<frame.port, m.b>>, res)>>
                        ELSE <<>>
              made == Append(calls \o engine,
                             call("AddPluginInteractions",
                                  <<frame.port, Interactions>>, err))
          IN  IF err /= Nil
              THEN Return(frame, made, err)
              ELSE Goto(deferCleanInteractions(frame), made, "integrationTest")
    /\ UNCHANGED <<config, setup, runs, sessionVars>>

\* An ExecuteTest that goes on to verification whatever the callback returned.
IntegrationTestIgnoringError ==
    /\ pc = "integrationTest"
    /\ \E err \in CallbackResults :
          Goto(frame,
               Append(calls, call("integrationTest",
                                  [Port |-> frame.clientPort, Host |-> config.Host],
                                  err)),
               "VerifyPlugin")
    /\ UNCHANGED <<config, setup, runs, sessionVars>>

\* ExecuteTest, lines 151-160: the test callback.
IntegrationTest ==
    /\ pc = "integrationTest"
    /\ \E err \in CallbackResults :
          LET made == Append(calls, call("integrationTest",
                                         [Port |-> frame.clientPort, Host |-> config.Host],
                                         err))
          IN  IF err /= Nil
              THEN Return(frame, made, err)
              ELSE Goto(frame, made, "VerifyPlugin")
    /\ UNCHANGED <<config, setup, runs, sessionVars>>

\* ExecuteTest, lines 162-170: native.VerifyPlugin.
Verify ==
    /\ pc = "VerifyPlugin"
    /\ \E matched \in EngineMatchedResults, answer \in EngineMismatchResults :
          LET v == VerifyPlugin(matched, answer)
              made == Append(calls, call("VerifyPlugin", <<matched, answer>>, v))
          IN  IF ~v.res
              THEN Return(frame, made,
                          [msg |-> "pact validation failed", res |-> v.res,
                           mismatches |-> v.mismatches])
              ELSE Goto(frame, made, "WritePact")
    /\ UNCHANGED <<config, setup, runs, sessionVars>>

\* ExecuteTest, line 172: return p.WritePact().
ReturnWritePact ==
    /\ pc = "WritePact"
    /\ LET err == WritePact IN
          Return(frame,
                 Append(calls, call("WritePact", "none", err)) \o WritePactNativeCalls,
                 err)
    /\ UNCHANGED <<config, setup, runs, sessionVars>>

\* An AddInteraction that puts the payload in front of the pending ones.
AddInteractionAtFront(i) ==
    /\ pc \in {"idle", "integrationTest"}
    /\ Len(Interactions) < MaxPending
    /\ Interactions' = <<i>> \o Interactions
    /\ added' = Append(added, i)
    /\ UNCHANGED <<config, setup, pc, frame, calls, runs, sessionVars>>

\* PluginProvider.AddInteraction, called between runs or by the test callback.
AddInteraction(i) ==
    /\ pc \in {"idle", "integrationTest"}
    /\ Len(Interactions) < MaxPending
    /\ Interactions' = Append(Interactions, i)
    /\ added' = Append(added, i)
    /\ UNCHANGED <<config, setup, pc, frame, calls, runs, sessionVars>>

ProviderNext ==
    \/ ExecuteTest
    \/ WaitForPort
    \/ PushInteractions
    \/ IntegrationTest
    \/ Verify
    \/ ReturnWritePact
    \/ \E i \in Payloads : AddInteraction(i)

------------------------------------------------------------------------------
(* v3 package: NewPluginProvider and validateConfig *)

\* Characters of a directory name below the root.
DirChars == {"a", "%"}

\* Working directories os.Getwd may return: absolute, clean paths.
Cwds == {<<"/">> \o d : d \in UNION {[1..k -> DirChars] : k \in 1..MaxCwd}}

\* Configurations a caller may pass to NewPluginProvider. Host is tested for
\* emptiness only; directories are sequences of characters.
Configs ==
    [Host : {"", "localhost"},
     LogDir : {<<>>, <<"/", "l">>},
     PactDir : {<<>>, <<"/", "p">>},
     Port : {-1, 0, AdminPort}]

\* What utils.GetFreePort may return to validateConfig.
FreePortResults ==
    {[port |-> p, err |-> Nil] : p \in Ports}
    \cup {[port |-> 0, err |-> Error("no free port")]}

\* filepath.Join(dir, name) for a clean dir other than the root.
Join(dir, name) == dir \o <<"/">> \o name

\* fmt.Sprintf(format) with no operands: a % takes the next character as its
\* verb and, there being no operand for it, prints %!verb(MISSING); %% prints
\* %; a % that ends the format prints %!(NOVERB).
RECURSIVE Sprintf(_)
Sprintf(format) ==
    IF format = <<>> THEN <<>>
    ELSE IF Head(format) /= "%" THEN <<Head(format)>> \o Sprintf(Tail(format))
    ELSE IF Len(format) = 1 THEN <<"%!(NOVERB)">>
    ELSE IF format[2] = "%" THEN <<"%">> \o Sprintf(SubSeq(format, 3, Len(format)))
    ELSE <<"%!", format[2], "(MISSING)">> \o Sprintf(SubSeq(format, 3, Len(format)))

\* PluginProvider.validateConfig on configuration c, with the working directory
\* and the answer utils.GetFreePort gives if asked: the configuration left in
\* p.config and the error returned.
validateConfig(c, dir, free) ==
    LET c1 == IF c.Host = "" THEN [c EXCEPT !.Host = "127.0.0.1"] ELSE c
        c2 == IF c1.LogDir = <<>>
              THEN [c1 EXCEPT !.LogDir = Sprintf(Join(dir, <<"l", "o", "g", "s">>))]
              ELSE c1
        c3 == IF c2.PactDir = <<>>
              THEN [c2 EXCEPT !.PactDir = Sprintf(Join(dir, <<"p", "a", "c", "t", "s">>))]
              ELSE c2
        c4 == IF c3.Port <= 0 THEN [c3 EXCEPT !.Port = free.port] ELSE c3
        pErr == IF c3.Port <= 0 THEN free.err ELSE Nil
    IN  [config |-> c4,
         err |-> IF pErr /= Nil
                 THEN Error("error: unable to find free port, mock server will fail to start")
                 ELSE Nil]

\* Before NewPluginProvider: a caller's configuration and a working directory.
ConfigInit ==
    /\ SessionInit
    /\ config \in Configs
    /\ \E dir \in Cwds : setup = [NoSetup EXCEPT !.cwd = dir, !.given = config]
    /\ Interactions = <<>>
    /\ pc = "idle"
    /\ frame = NoFrame
    /\ calls = <<>>
    /\ runs = 0
    /\ added = <<>>

\* NewPluginProvider: validateConfig on the caller's configuration; nil and
\* the error when it fails.
NewPluginProvider ==
    /\ setup.provider = "none"
    /\ \E free \in FreePortResults :
          LET r == validateConfig(config, setup.cwd, free) IN
          /\ config' = r.config
          /\ setup' = [setup EXCEPT !.free = free,
                                    !.err = r.err,
                                    !.provider = IF r.err /= Nil THEN "nil" ELSE "provider",
                                    !.first = r.config,
                                    !.validated = 1]
    /\ UNCHANGED <<Interactions, pc, frame, calls, runs, added, sessionVars>>

\* p.validateConfig() called again on the provider NewPluginProvider returned.
ValidateConfig ==
    /\ setup.provider = "provider"
    /\ setup.validated < MaxValidations
    /\ \E free \in FreePortResults :
          LET r == validateConfig(config, setup.cwd, free) IN
          /\ config' = r.config
          /\ setup' = [setup EXCEPT !.err = r.err, !.validated = @ + 1]
    /\ UNCHANGED <<Interactions, pc, frame, calls, runs, added, sessionVars>>

ConfigNext ==
    \/ NewPluginProvider
    \/ ValidateConfig

Init == SessionInit /\ ProviderInit

SessionNext ==
    \/ \E bodyOK \in BOOLEAN : CreateSession(bodyOK)
    \/ \E id \in SessionIds : ListenForSessions(id)
    \/ \E id \in SessionIds : CreateSessionRespond(id)
    \/ \E id \in SessionIds : StartTCPListener(id)
    \/ \E id \in SessionIds, r \in ReadResults : HandleRequest(id, r.data, r.err)
    \/ \E id \in KnownIds, list \in LoadListsByTable : loadInteractions(id, TRUE, list)
    \/ \E id \in RequestIds : loadInteractions(id, FALSE, <<>>)
    \/ \E id \in RequestIds : mismatches(id)

Spec == Init /\ [][SessionNext]_vars

\* The session server with the goroutines' scheduling: a blocked send is
\* received, a handler that can respond responds, a spawned listener runs.
FairSpec ==
    /\ Spec
    /\ \A id \in SessionIds :
          /\ WF_vars(ListenForSessions(id))
          /\ WF_vars(CreateSessionRespond(id))
          /\ WF_vars(StartTCPListener(id))

\* The session server serving well-formed requests only: sessions are created,
\* tables loaded, and the messages sent are messages a table may hold. The
\* requests left out (malformed bodies, unknown ids, get-mismatches, other
\* bytes, read failures) change no session.
ReloadNext ==
    \/ CreateSession(TRUE)
    \/ \E id \in SessionIds : ListenForSessions(id)
    \/ \E id \in SessionIds : CreateSessionRespond(id)
    \/ \E id \in SessionIds : StartTCPListener(id)
    \/ \E id \in SessionIds, m \in LoadMessages : HandleRequest(id, m, "nil")
    \/ \E id \in KnownIds, list \in LoadLists : loadInteractions(id, TRUE, list)

ReloadSpec == Init /\ [][ReloadNext]_vars

\* The session server with its connection handlers taken statement by
\* statement, so that handlers of one session interleave.
RaceNext ==
    \/ CreateSession(TRUE)
    \/ \E id \in SessionIds : ListenForSessions(id)
    \/ \E id \in SessionIds : CreateSessionRespond(id)
    \/ \E id \in SessionIds : StartTCPListener(id)
    \/ \E id \in KnownIds, list \in LoadLists : loadInteractions(id, TRUE, list)
    \/ \E c \in Conns, id \in SessionIds, r \in ReadResults :
          HandleRequestRead(c, id, r.data, r.err)
    \/ \E c \in Conns : MatchRequestLookup(c)
    \/ \E c \in Conns : MatchRequestStore(c)

RaceSpec == Init /\ [][RaceNext]_vars

ProviderSpec == Init /\ [][ProviderNext]_vars

ConfigSpec == ConfigInit /\ [][ConfigNext]_vars

------------------------------------------------------------------------------
(* Properties of PluginProvider.ExecuteTest (checked under ProviderSpec) *)

Range(seq) == {seq[i] : i \in DOMAIN seq}

\* Positions in calls of the calls to fn.
CallsOf(fn) == {i \in DOMAIN calls : calls[i].fn = fn}

\* The last ExecuteTest has returned and no other has started.
Returned == calls /= <<>> /\ calls[Len(calls)].fn = "return"

\* The error the last ExecuteTest returned.
ReturnedErr == calls[Len(calls)].ret

\* The engine started the mock server of the current / last run.
EngineStarted == calls /= <<>> /\ calls[1].ret[1] > 0

\* C1: whichever step ends an ExecuteTest run, p.Interactions is empty when
\* ExecuteTest returns (stated here for the runs whose mock server started).
C1_InteractionsEmptyAtReturn ==
    \A i \in CallsOf("return") : EngineStarted => calls[i].arg = <<>>

\* C2: in a run whose CreatePluginMockServer returned no error,
\* CleanupPluginMockServer is called exactly once before ExecuteTest returns,
\* with the configured admin port, whatever the exit path; it is never called
\* with another port, and never twice.
C2_CleanupOnceForAdminPort ==
    /\ \A i \in CallsOf("CleanupPluginMockServer") : calls[i].arg = config.Port
    /\ Cardinality(CallsOf("CleanupPluginMockServer")) <= 1
    /\ (Returned /\ calls[1].ret[2] = Nil) =>
          \E i \in CallsOf("CleanupPluginMockServer") : i < Len(calls)

\* A run that ended on the readiness timeout, after its one cleanup call.
C2_Witness ==
    /\ Returned
    /\ \E i \in CallsOf("waitForPort") : calls[i].ret /= Nil
    /\ Cardinality(CallsOf("CleanupPluginMockServer")) = 1
    /\ CallsOf("AddPluginInteractions") = {}

\* C8: after the callback returned nil, a run in which the engine reports a
\* negative result or a non-empty mismatch list returns the verification
\* error and does not call WritePact (stated here for the runs whose mock
\* server started).
C8_VerificationFailsOnAnyMismatch ==
    \A i \in CallsOf("VerifyPlugin") :
        (/\ Returned
         /\ EngineStarted
         /\ (calls[i].arg[1] /= 1 \/ calls[i].arg[2].Mismatches /= <<>>)) =>
            /\ ReturnedErr.msg = "pact validation failed"
            /\ CallsOf("WritePact") = {}

\* C9: the callback is called at most once per run; when it returns an error,
\* ExecuteTest returns that very error and neither VerifyPlugin nor WritePact
\* is called.
C9_CallbackErrorReturnedVerbatim ==
    /\ Cardinality(CallsOf("integrationTest")) <= 1
    /\ \A i \in CallsOf("integrationTest") :
          calls[i].ret /= Nil =>
              /\ Returned
              /\ ReturnedErr = calls[i].ret
              /\ CallsOf("VerifyPlugin") = {}
              /\ CallsOf("WritePact") = {}

\* A run ended by the callback's error.
C9_Witness ==
    /\ Returned
    /\ \E i \in CallsOf("integrationTest") : calls[i].ret = Error("connection refused")
    /\ ReturnedErr = Error("connection refused")

\* C10: when the engine fails to start the mock server, ExecuteTest returns an
\* error at once: no readiness poll, no push of interactions, no callback, no
\* verification.
C10_StartFailureReturnsAtOnce ==
    (calls /= <<>> /\ calls[1].ret[1] < 0) =>
        /\ Returned
        /\ ReturnedErr /= Nil
        /\ CallsOf("waitForPort") = {}
        /\ CallsOf("AddPluginInteractions") = {}
        /\ CallsOf("integrationTest") = {}
        /\ CallsOf("VerifyPlugin") = {}

\* The steps of one ExecuteTest, in the order of the source.
Steps ==
    <<"CreatePluginMockServer", "waitForPort", "AddPluginInteractions",
      "integrationTest", "VerifyPlugin", "WritePact">>

\* The step recorded at position i of calls did what it was asked to do.
Succeeded(i) ==
    LET c == calls[i] IN
    CASE c.fn = "CreatePluginMockServer" -> c.ret[1] > 0 /\ c.ret[2] = Nil
      [] c.fn = "AddPluginInteractions" ->
            /\ c.ret = Nil
            /\ \A j \in CallsOf("add_plugin_interaction") : calls[j].ret = "ok"
      [] c.fn = "VerifyPlugin" -> c.arg[1] = 1 /\ c.ret.res /\ c.ret.mismatches.Mismatches = <<>>
      [] OTHER -> c.ret = Nil

\* Every step up to verification ran and succeeded in the last run.
FullSuccess ==
    /\ Returned
    /\ \A k \in 1..5 : \E i \in CallsOf(Steps[k]) : Succeeded(i)

\* C11: a run whose start, readiness poll, push, callback and verification
\* all succeeded calls the engine's pact-writing operation (WritePactFile)
\* before it returns, and returns what that call returned; a run in which a
\* step failed never calls it.
C11_PactWrittenOnFullSuccess ==
    /\ FullSuccess =>
          \E i \in CallsOf("WritePactFile") : ReturnedErr = calls[i].ret
    /\ (\E i \in DOMAIN calls : calls[i].fn \in Range(Steps) /\ ~Succeeded(i)) =>
          CallsOf("WritePactFile") = {}

\* C15: AddInteraction appends its payload after the pending ones and leaves
\* them as they are: the pending sequence is at all times the payloads added
\* since the last reset, in call order, and what ExecuteTest pushes to the
\* engine is that sequence as it stood at the push.
C15_PushedIsAddedInOrder ==
    /\ Interactions = added
    /\ (pc = "integrationTest" /\ calls[Len(calls)].fn = "AddPluginInteractions") =>
          LET pushed == calls[Len(calls)].arg[2] IN
          /\ Len(pushed) <= Len(added)
          /\ SubSeq(added, 1, Len(pushed)) = pushed

\* A second run pushes the two payloads added after the first run's reset,
\* in the order of the calls.
C15_Witness ==
    /\ runs = 2
    /\ pc = "integrationTest"
    /\ calls[Len(calls)].fn = "AddPluginInteractions"
    /\ calls[Len(calls)].arg[2] = <<"i2", "i1">>
    /\ added = <<"i2", "i1">>

\* The push recorded at position i of calls failed: json.Marshal rejected the
\* payloads, or the engine did not take them.
PushFailed(i) ==
    \/ calls[i].fn = "AddPluginInteractions" /\ calls[i].ret /= Nil
    \/ calls[i].fn = "add_plugin_interaction" /\ calls[i].ret = "failed"

\* C18: when the push of the pending interactions fails, ExecuteTest returns
\* an error without calling the callback, VerifyPlugin or WritePact, and the
\* mock-server cleanup runs (stated here for the runs whose mock server
\* started).
C18_PushFailureAborts ==
    \A i \in DOMAIN calls :
        (EngineStarted /\ PushFailed(i)) =>
            /\ Returned
            /\ ReturnedErr /= Nil
            /\ CallsOf("integrationTest") = {}
            /\ CallsOf("VerifyPlugin") = {}
            /\ CallsOf("WritePact") = {}
            /\ CallsOf("CleanupPluginMockServer") /= {}

\* The step recorded at position i of calls reported success to ExecuteTest:
\* it returned a nil error, and VerifyPlugin a true result.
ReportedSuccess(i) ==
    LET c == calls[i] IN
    CASE c.fn = "CreatePluginMockServer" -> c.ret[2] = Nil
      [] c.fn = "VerifyPlugin" -> c.ret.res
      [] OTHER -> c.ret = Nil

C21_ReleaseInReverseOrder ==
    (Returned /\ \E i \in CallsOf("AddPluginInteractions") : calls[i].ret = Nil) =>
        /\ Cardinality(CallsOf("cleanInteractions")) = 1
        /\ Cardinality(CallsOf("CleanupPluginMockServer")) = 1
        /\ \A i \in CallsOf("cleanInteractions"), j \in CallsOf("CleanupPluginMockServer") :
              /\ i + 1 = j
              /\ j + 1 = Len(calls)
              /\ calls[j].arg = config.Port

\* A run ended by failed verification released both: the reset, then the
\* cleanup of port 4444, then the return.
C21_Witness ==
    /\ Returned
    /\ ReturnedErr /= Nil
    /\ CallsOf("VerifyPlugin") /= {}
    /\ Len(calls) >= 3
    /\ calls[Len(calls) - 2].fn = "cleanInteractions"
    /\ calls[Len(calls) - 1].fn = "CleanupPluginMockServer"
    /\ calls[Len(calls) - 1].arg = AdminPort

------------------------------------------------------------------------------
(* Properties of NewPluginProvider (checked under ConfigSpec) *)

\* C16: validation fills the unset fields only (host 127.0.0.1, logDir and
\* pactDir <cwd>/logs and <cwd>/pacts, a port <= 0 replaced by a free port)
\* and keeps what the caller gave; it fails, and NewPluginProvider returns no
\* provider, exactly when a free port is needed and none is obtained; a
\* second validation of a validated configuration changes nothing.
C16_ValidationFillsDefaults ==
    setup.validated >= 1 =>
        LET g == setup.given
            needsPort == g.Port <= 0
        IN  /\ (setup.provider = "nil") <=> (needsPort /\ setup.free.err /= Nil)
            /\ setup.provider = "provider" =>
                  /\ setup.err = Nil
                  /\ config.Host = IF g.Host = "" THEN "127.0.0.1" ELSE g.Host
                  /\ config.LogDir = IF g.LogDir = <<>>
                                     THEN Join(setup.cwd, <<"l", "o", "g", "s">>)
                                     ELSE g.LogDir
                  /\ config.PactDir = IF g.PactDir = <<>>
                                      THEN Join(setup.cwd, <<"p", "a", "c", "t", "s">>)
                                      ELSE g.PactDir
                  /\ config.Port = IF needsPort THEN setup.free.port ELSE g.Port
                  /\ config = setup.first

------------------------------------------------------------------------------
(* Properties of the plugin session server (checked under Spec) *)

\* C3: after any sequence of operations, every element of a session's
\* matchedInteractions is a key of the session's current interactions table.
C3_MatchedWithinExpected ==
    \A id \in DOMAIN sessions :
        Range(sessions[id].matchedInteractions) \subseteq DOMAIN sessions[id].interactions

\* C4: get-mismatches returns exactly one detail per key of the interactions
\* table that is not among the matched messages, with actual = "" and
\* expected = that key, and nothing else.
C4_MismatchesAreUnmatchedKeys ==
    (reply.kind = "mismatches" /\ reply.status = StatusOK) =>
        LET s == sessions[reply.id]
            ms == reply.body.Mismatches
            want == DOMAIN s.interactions \ Range(s.matchedInteractions)
        IN  /\ Len(ms) = Cardinality(want)
            /\ {ms[i].Expected : i \in DOMAIN ms} = want
            /\ \A i \in DOMAIN ms : ms[i].Actual = EmptyString

\* A get-mismatches answer for a session with one key matched twice and one
\* key never sent: exactly one detail, for the key never sent.
C4_Witness ==
    /\ reply.kind = "mismatches"
    /\ reply.status = StatusOK
    /\ DOMAIN sessions[reply.id].interactions = {<<"P">>, <<"P", "P">>}
    /\ sessions[reply.id].matchedInteractions = <<<<"P">>, <<"P">>>>
    /\ Len(reply.body.Mismatches) = 1
    /\ reply.body.Mismatches[1].Expected = <<"P", "P">>

\* The last request handled was a connection of a session's listener whose
\* handler passed a message to matchRequest (conn.Read gave no failure, so the
\* handler did not answer before matching).
Delivered == reply.kind = "tcp" /\ reply.err \in {"nil", "EOF"}

\* C5: a delivered message that, trimmed, is no key of the session's table is
\* answered with the empty string, leaves the session's interactions and
\* matchedInteractions as they were, and adds no mismatch: the mismatch
\* results stay what they were and hold no entry for that message.
C5_MissLeavesSessionUnchanged ==
    (Delivered /\ reply.request \notin DOMAIN reply.before.interactions) =>
        /\ reply.body.text = ""
        /\ sessions[reply.id] = reply.before
        /\ MismatchResults(sessions[reply.id]) = MismatchResults(reply.before)
        /\ \A res \in MismatchResults(sessions[reply.id]) :
              \A i \in DOMAIN res.Mismatches :
                  res.Mismatches[i].Expected /= reply.request

\* A miss on a session that expects another message and has matched it.
C5_Witness ==
    /\ Delivered
    /\ reply.body.text = ""
    /\ reply.request = <<"P", "P">>
    /\ DOMAIN sessions[reply.id].interactions = {<<"P">>}
    /\ sessions[reply.id].matchedInteractions = <<<<"P">>>>

\* C6: a delivered message that, trimmed, is a key of the session's table is
\* answered with that interaction's Response and the key is appended once to
\* matchedInteractions, also when the key was matched before.
C6_HitRepliesAndAppends ==
    (Delivered /\ reply.request \in DOMAIN reply.before.interactions) =>
        /\ reply.body.text = reply.before.interactions[reply.request].Response
        /\ sessions[reply.id].matchedInteractions =
              Append(reply.before.matchedInteractions, reply.request)
        /\ sessions[reply.id].interactions = reply.before.interactions

\* The same message was sent twice and answered with its response.
C6_Witness ==
    /\ Delivered
    /\ reply.request = <<"P">>
    /\ reply.body.text = "ACK"
    /\ reply.before.matchedInteractions = <<<<"P">>>>
    /\ sessions[reply.id].matchedInteractions = <<<<"P">>, <<"P">>>>

\* C7: loading interactions into a session or matching a message on its
\* listener changes nothing of another session: its table, its matched
\* messages, its listener's answers and its mismatch results stay the same.
C7_SessionsIsolated ==
    (reply.kind \in {"tcp", "loadInteractions"}) =>
        \A b \in DOMAIN reply.others :
            /\ b \in DOMAIN sessions
            /\ sessions[b].interactions = reply.others[b].interactions
            /\ sessions[b].matchedInteractions = reply.others[b].matchedInteractions
            /\ MismatchResults(sessions[b]) = MismatchResults(reply.others[b])
            /\ \A r \in ReadResults :
                  handleRequest(r.data, r.err, sessions[b]).response
                      = handleRequest(r.data, r.err, reply.others[b]).response

\* Two listening sessions with different tables, one of which just matched
\* while the other had matched before.
C7_Witness ==
    /\ reply.kind = "tcp"
    /\ reply.body.text = "PONG"
    /\ \E b \in DOMAIN reply.others :
          /\ listenerPc[b] = "listening"
          /\ sessions[b].interactions /= EmptyMap
          /\ sessions[b].interactions /= sessions[reply.id].interactions
          /\ sessions[b].matchedInteractions /= <<>>

\* C13: any two sessions of the registry have different ports; the port of a
\* create-session response is the port of the session, which is the port its
\* listener binds, and no other session is given it.
C13_DistinctPorts ==
    /\ \A a, b \in DOMAIN sessions : a /= b => sessions[a].port /= sessions[b].port
    /\ \A a \in DOMAIN responses : responses[a].Port = sessions[a].port

\* A request of the admin API that names a session: load-interactions or
\* get-mismatches.
NamesSession(r) == r.kind \in {"loadInteractions", "mismatches"}

\* C14: a load-interactions or get-mismatches request for an id that is not
\* in the registry is answered 404, adds no session, leaves every session as
\* it was, and leaves the process running.
C14_UnknownIdNotFound ==
    [][\A id \in SessionIds :
          (/\ id \notin DOMAIN sessions
           /\ reply' /= reply
           /\ NamesSession(reply')
           /\ reply'.id = id) =>
              /\ reply'.status = StatusNotFound
              /\ sessions' = sessions
              /\ alive']_vars

\* A 404 answer given while a session with a loaded table exists, after which
\* the process runs and the session is what it was.
C14_Witness ==
    /\ NamesSession(reply)
    /\ reply.status = StatusNotFound
    /\ reply.id \notin DOMAIN sessions
    /\ alive
    /\ \E b \in DOMAIN sessions :
          /\ sessions[b].interactions /= EmptyMap
          /\ sessions[b].matchedInteractions /= <<>>
          /\ reply.others[b] = sessions[b]

\* C17: every session whose creation was acknowledged eventually has its
\* listener listening on the session's port.
C17_ListenerEventuallyStarted ==
    \A id \in SessionIds :
        [](id \in DOMAIN responses =>
              <>(id \in DOMAIN listenerPc /\ listenerPc[id] = "listening"))

\* C20: a create-session handler never waits for a listener: while the
\* process runs, a handler at its channel send can hand its session over and
\* a handler past the send can respond, whatever the listeners of this and of
\* other sessions are doing.
C20_HandOffNeverWaitsForListener ==
    \A id \in DOMAIN sessions :
        alive =>
            /\ createPc[id] = "send" => ENABLED ListenForSessions(id)
            /\ createPc[id] = "respond" => ENABLED CreateSessionRespond(id)

\* A create-session response was written while the listener of that session
\* and the listener of an earlier session had not yet called net.Listen.
C20_Witness ==
    /\ reply.kind = "createSession"
    /\ reply.status = StatusOK
    /\ listenerPc[reply.id] = "spawned"
    /\ \E b \in DOMAIN sessions : b /= reply.id /\ listenerPc[b] = "spawned"

\* Session after is session before with the interactions of list loaded as
\* the claim C22 says: the table holds the messages of list and nothing else,
\* each with the last interaction of list that has it; the matched messages
\* are what they were; no mismatch is reported for a message matched before.
ReloadedAsClaimed(before, after, list) ==
    /\ DOMAIN after.interactions = {list[i].Message : i \in DOMAIN list}
    /\ \A k \in DOMAIN after.interactions :
          \E i \in DOMAIN list :
              /\ list[i].Message = k
              /\ after.interactions[k] = list[i]
              /\ \A j \in DOMAIN list : j > i => list[j].Message /= k
    /\ after.matchedInteractions = before.matchedInteractions
    /\ \A res \in MismatchResults(after) :
          \A n \in DOMAIN res.Mismatches :
              res.Mismatches[n].Expected \notin Range(before.matchedInteractions)

\* C22 (checked under ReloadSpec): no load-interactions request on an
\* existing session can do anything else than replace the whole table by the
\* request's interactions (the last one of a message winning) and leave
\* matchedInteractions as it is, so that a message matched before the load is
\* not reported as a mismatch after it.
C22_ReloadKeepsMatched ==
    \A id \in DOMAIN sessions, list \in LoadLists :
        ~ENABLED (/\ loadInteractions(id, TRUE, list)
                  /\ ~ReloadedAsClaimed(sessions[id], sessions'[id], list))

\* A session that matched "P" was then loaded with a table that has "P" and
\* "PP": its only mismatch is "PP".
C22_Witness ==
    /\ reply.kind = "loadInteractions"
    /\ reply.status = StatusOK
    /\ sessions[reply.id].matchedInteractions = <<<<"P">>>>
    /\ sessions[reply.id].interactions =
          (<<"P">> :> interaction(<<"P">>, "ACK")
           @@ <<"P", "P">> :> interaction(<<"P", "P">>, "PONG"))
    /\ \A res \in MismatchResults(sessions[reply.id]) :
          Len(res.Mismatches) = 1 /\ res.Mismatches[1].Expected = <<"P", "P">>

\* C23: once the create-session response for an id is written, the registry
\* holds a session under that id with the port of the response, and stays so:
\* no load-interactions or get-mismatches request handled after the response
\* is answered 404 (the response is itself the last request handled when it
\* is written, so a 404 met in a state is never older than the response).
C23_AcknowledgedSessionIsFound ==
    /\ \A id \in DOMAIN responses :
          /\ id \in DOMAIN sessions
          /\ sessions[id].id = id
          /\ responses[id].ID = id
          /\ sessions[id].port = responses[id].Port
    /\ (NamesSession(reply) /\ reply.status = StatusNotFound) =>
          reply.id \notin DOMAIN responses

\* A get-mismatches request for an acknowledged session was answered 200
\* before the session's listener had called net.Listen.
C23_Witness ==
    /\ reply.kind = "mismatches"
    /\ reply.status = StatusOK
    /\ reply.id \in DOMAIN responses
    /\ listenerPc[reply.id] = "spawned"
    /\ responses[reply.id].Port = sessions[reply.id].port

------------------------------------------------------------------------------
(* Properties of interleaved connection handlers (checked under RaceSpec) *)

\* The connection handlers of session id that are at position at.
HandlersAt(id, at) == {c \in Conns : handlers[c].id = id /\ handlers[c].pc = at}

\* C12: no update of session state is lost: an acknowledged session is in the
\* registry under its id, and once the handlers of a session that found a
\* match have all stored it, matchedInteractions has one entry per handler.
C12_NoLostUpdate ==
    /\ \A id \in DOMAIN responses : id \in DOMAIN sessions /\ sessions[id].id = id
    /\ \A id \in DOMAIN sessions :
          (HandlersAt(id, "matchRequest") = {} /\ HandlersAt(id, "append") = {}) =>
              Len(sessions[id].matchedInteractions)
                  = Cardinality(HandlersAt(id, "matched"))

====
